---- MODULE Spec2Model ----
(***************************************************************************)
(* Model of the two Dash epidemic simulators MODELO_SIRD.py and            *)
(* MODELO_SLIRD.py: the derivative functions sird_model / slird_model, the *)
(* callback update_graph of either script, and the numerical libraries     *)
(* they call (np.linspace, scipy odeint).                                  *)
(*                                                                         *)
(* Python floats are IEEE-754 binary floating point numbers.  They are     *)
(* modelled as binary floating point numbers m * 2^e with a MantBits-bit   *)
(* significand, round-to-nearest-even after every operation, NaN,          *)
(* infinities and the exponent range of a double; zero is unsigned and     *)
(* subnormal numbers keep full precision.  Python's None is a value of its *)
(* own; arithmetic on it raises TypeError, which is carried as the value   *)
(* Err.                                                                    *)
(***************************************************************************)
EXTENDS Integers, Sequences, FiniteSets, TLC

\* Width of the significand (53 in CPython's float).
MantBits == 13

----------------------------------------------------------------------------
(* Floating point values *)

Fin(m, e) == [c |-> "fin", m |-> m, e |-> e]
Zero == Fin(0, 0)
NaN  == [c |-> "nan", m |-> 0, e |-> 0]
Inf  == [c |-> "inf", m |-> 1, e |-> 0]
None == [c |-> "none", m |-> 0, e |-> 0]
Err  == [c |-> "err", m |-> 0, e |-> 0]

RECURSIVE BitLen(_)
BitLen(n) == IF n = 0 THEN 0 ELSE 1 + BitLen(n \div 2)

Abs(n) == IF n < 0 THEN -n ELSE n
Sgn(n) == IF n < 0 THEN -1 ELSE IF n = 0 THEN 0 ELSE 1

\* The exponent range of a double: finite values are below 2^1024 in
\* magnitude, and nothing lies between 0 and 2^-1074.
ExpMax == 1024
ExpMin == -1074

\* A normalised significand and exponent as a float: infinity beyond the
\* largest double, zero below the smallest (the reduced precision of
\* subnormal numbers is not modelled).
Ranged(m, e) ==
  IF e + MantBits > ExpMax THEN [c |-> "inf", m |-> Sgn(m), e |-> 0]
  ELSE IF e + MantBits <= ExpMin THEN Zero
  ELSE Fin(m, e)

\* The float nearest to the real number m * 2^e (ties to even).
Round(m, e) ==
  IF m = 0 THEN Zero
  ELSE LET a == Abs(m)
           L == BitLen(a)
       IN IF L <= MantBits
          THEN Ranged(Sgn(m) * a * 2^(MantBits - L), e - (MantBits - L))
          ELSE LET k    == L - MantBits
                   q    == a \div 2^k
                   r    == a % 2^k
                   half == 2^(k - 1)
                   q2   == IF r > half \/ (r = half /\ q % 2 = 1) THEN q + 1 ELSE q
               IN IF q2 = 2^MantBits
                  THEN Ranged(Sgn(m) * 2^(MantBits - 1), e + k + 1)
                  ELSE Ranged(Sgn(m) * q2, e + k)

\* float(n) for a Python int n.
FromInt(n) == Round(n, 0)

\* Op(a) and Op(a, b) with the arguments' values fixed first, so that a nested
\* expression is evaluated once (the value is that of Op(a), Op(a, b)).
Let1(a, Op(_)) == CHOOSE r \in {Op(u) : u \in {a}} : TRUE
Let2(a, b, Op(_, _)) == CHOOSE r \in {Op(u, v) : u \in {a}, v \in {b}} : TRUE

IsNum(a) == a.c \in {"fin", "nan", "inf"}
IsFinite(a) == a.c = "fin"

FNeg(a) == IF a.c \in {"fin", "inf"} THEN [a EXCEPT !.m = -a.m] ELSE a

\* a * b
MulV(a, b) ==
  IF ~IsNum(a) \/ ~IsNum(b) THEN Err
  ELSE IF a.c = "nan" \/ b.c = "nan" THEN NaN
  ELSE IF a.c = "inf" \/ b.c = "inf"
       THEN IF a.m = 0 \/ b.m = 0 THEN NaN
            ELSE [c |-> "inf", m |-> Sgn(a.m) * Sgn(b.m), e |-> 0]
  ELSE Round(a.m * b.m, a.e + b.e)
FMul(a, b) == Let2(a, b, MulV)

\* a + b
AddV(a, b) ==
  IF ~IsNum(a) \/ ~IsNum(b) THEN Err
  ELSE IF a.c = "nan" \/ b.c = "nan" THEN NaN
  ELSE IF a.c = "inf" /\ b.c = "inf" THEN (IF a.m = b.m THEN a ELSE NaN)
  ELSE IF a.c = "inf" THEN a
  ELSE IF b.c = "inf" THEN b
  ELSE IF a.m = 0 THEN b
  ELSE IF b.m = 0 THEN a
  ELSE LET hi == IF a.e >= b.e THEN a ELSE b
           lo == IF a.e >= b.e THEN b ELSE a
           d  == hi.e - lo.e
       IN IF d > MantBits + 1 THEN hi
          ELSE Round(hi.m * 2^d + lo.m, lo.e)
FAdd(a, b) == Let2(a, b, AddV)

\* a - b
FSub(a, b) == FAdd(a, FNeg(b))

\* a / b for finite b # 0
DivV(a, b) ==
  IF ~IsNum(a) \/ ~IsNum(b) THEN Err
  ELSE IF a.c # "fin" \/ b.c # "fin" \/ b.m = 0 THEN NaN
  ELSE IF a.m = 0 THEN Zero
  ELSE LET n == Abs(a.m) * 2^(MantBits + 2)
           q == n \div Abs(b.m)
           s == IF n % Abs(b.m) = 0 THEN 0 ELSE 1
       IN Round(Sgn(a.m) * Sgn(b.m) * (2 * q + s), a.e - b.e - MantBits - 3)
FDiv(a, b) == Let2(a, b, DivV)

\* The float a decimal literal n/d of the source denotes.
Dec(n, d) == FDiv(FromInt(n), FromInt(d))

\* a <= b, a < b on finite floats
FLt(a, b) ==
  LET x == FSub(a, b) IN x.c = "fin" /\ x.m < 0
FLe(a, b) ==
  LET x == FSub(a, b) IN x.c = "fin" /\ x.m <= 0
FAbs(a) == IF a.c \in {"fin", "inf"} THEN [a EXCEPT !.m = Abs(a.m)] ELSE a


----------------------------------------------------------------------------
(* Vectors of floats *)

VAdd(u, v) ==
  IF Len(u) = 3
  THEN <<FAdd(u[1], v[1]), FAdd(u[2], v[2]), FAdd(u[3], v[3])>>
  ELSE <<FAdd(u[1], v[1]), FAdd(u[2], v[2]), FAdd(u[3], v[3]), FAdd(u[4], v[4])>>
VScale(a, v) ==
  IF Len(v) = 3
  THEN <<FMul(a, v[1]), FMul(a, v[2]), FMul(a, v[3])>>
  ELSE <<FMul(a, v[1]), FMul(a, v[2]), FMul(a, v[3]), FMul(a, v[4])>>

\* What a call that raised TypeError yields instead of a vector.
TypeError == <<Err>>
Raised(v) == \E i \in DOMAIN v : v[i].c = "err"

----------------------------------------------------------------------------
(* The derivative functions *)

\* sird_model with a rate confused: recoveries enter R at the rate delta.
sird_model_leak(y, t, beta, rho, delta, alpha, lambda_) ==
  LET S == y[1]
      I == y[2]
      R == y[3]
      dSdt == FAdd(FSub(alpha, FMul(FMul(beta, S), I)), FMul(lambda_, R))
      dIdt == FSub(FSub(FMul(FMul(beta, S), I), FMul(delta, I)), FMul(rho, I))
      dRdt == FSub(FMul(delta, I), FMul(lambda_, R))
  IN IF Raised(<<dSdt, dIdt, dRdt>>) THEN TypeError ELSE <<dSdt, dIdt, dRdt>>

\* sird_model with a sign slip: mortality feeds the infected compartment.
sird_model_growth(y, t, beta, rho, delta, alpha, lambda_) ==
  LET S == y[1]
      I == y[2]
      R == y[3]
      dSdt == FAdd(FSub(alpha, FMul(FMul(beta, S), I)), FMul(lambda_, R))
      dIdt == FSub(FAdd(FMul(FMul(beta, S), I), FMul(delta, I)), FMul(rho, I))
      dRdt == FSub(FMul(rho, I), FMul(lambda_, R))
  IN IF Raised(<<dSdt, dIdt, dRdt>>) THEN TypeError ELSE <<dSdt, dIdt, dRdt>>

\* sird_model with a sign slip: reinfection adds to R instead of leaving it.
sird_model_sign(y, t, beta, rho, delta, alpha, lambda_) ==
  LET S == y[1]
      I == y[2]
      R == y[3]
      dSdt == FAdd(FSub(alpha, FMul(FMul(beta, S), I)), FMul(lambda_, R))
      dIdt == FSub(FSub(FMul(FMul(beta, S), I), FMul(delta, I)), FMul(rho, I))
      dRdt == FAdd(FMul(rho, I), FMul(lambda_, R))
  IN IF Raised(<<dSdt, dIdt, dRdt>>) THEN TypeError ELSE <<dSdt, dIdt, dRdt>>

\* MODELO_SIRD.py: def sird_model(y, t, beta, rho, delta, alpha, lambda_)
sird_model(y, t, beta, rho, delta, alpha, lambda_) ==
  LET S == y[1]
      I == y[2]
      R == y[3]
      dSdt == FAdd(FSub(alpha, FMul(FMul(beta, S), I)), FMul(lambda_, R))
      dIdt == FSub(FSub(FMul(FMul(beta, S), I), FMul(delta, I)), FMul(rho, I))
      dRdt == FSub(FMul(rho, I), FMul(lambda_, R))
  IN IF Raised(<<dSdt, dIdt, dRdt>>) THEN TypeError ELSE <<dSdt, dIdt, dRdt>>

\* slird_model returning dI and dL in each other's place.
slird_model_swapped(y, t, beta, rho, delta, alpha, lambda_, gamma) ==
  LET S == y[1]
      L == y[2]
      I == y[3]
      R == y[4]
      dSdt == FAdd(FSub(alpha, FMul(FMul(beta, S), I)), FMul(lambda_, R))
      dLdt == FSub(FMul(FMul(beta, S), I), FMul(gamma, L))
      dIdt == FSub(FSub(FMul(gamma, L), FMul(delta, I)), FMul(rho, I))
      dRdt == FSub(FMul(rho, I), FMul(lambda_, R))
  IN IF Raised(<<dSdt, dLdt, dIdt, dRdt>>) THEN TypeError
     ELSE <<dSdt, dIdt, dLdt, dRdt>>

\* slird_model with the infection inflow beta*S, the factor I forgotten.
slird_model_nocontact(y, t, beta, rho, delta, alpha, lambda_, gamma) ==
  LET S == y[1]
      L == y[2]
      I == y[3]
      R == y[4]
      dSdt == FAdd(FSub(alpha, FMul(FMul(beta, S), I)), FMul(lambda_, R))
      dLdt == FSub(FMul(beta, S), FMul(gamma, L))
      dIdt == FSub(FSub(FMul(gamma, L), FMul(delta, I)), FMul(rho, I))
      dRdt == FSub(FMul(rho, I), FMul(lambda_, R))
  IN IF Raised(<<dSdt, dLdt, dIdt, dRdt>>) THEN TypeError
     ELSE <<dSdt, dLdt, dIdt, dRdt>>

\* slird_model with the recovery outflow rho*I of the infected forgotten.
slird_model_norecovery(y, t, beta, rho, delta, alpha, lambda_, gamma) ==
  LET S == y[1]
      L == y[2]
      I == y[3]
      R == y[4]
      dSdt == FAdd(FSub(alpha, FMul(FMul(beta, S), I)), FMul(lambda_, R))
      dLdt == FSub(FMul(FMul(beta, S), I), FMul(gamma, L))
      dIdt == FSub(FMul(gamma, L), FMul(delta, I))
      dRdt == FSub(FMul(rho, I), FMul(lambda_, R))
  IN IF Raised(<<dSdt, dLdt, dIdt, dRdt>>) THEN TypeError
     ELSE <<dSdt, dLdt, dIdt, dRdt>>

\* MODELO_SLIRD.py: def slird_model(y, t, beta, rho, delta, alpha, lambda_, gamma)
slird_model(y, t, beta, rho, delta, alpha, lambda_, gamma) ==
  LET S == y[1]
      L == y[2]
      I == y[3]
      R == y[4]
      dSdt == FAdd(FSub(alpha, FMul(FMul(beta, S), I)), FMul(lambda_, R))
      dLdt == FSub(FMul(FMul(beta, S), I), FMul(gamma, L))
      dIdt == FSub(FSub(FMul(gamma, L), FMul(delta, I)), FMul(rho, I))
      dRdt == FSub(FMul(rho, I), FMul(lambda_, R))
  IN IF Raised(<<dSdt, dLdt, dIdt, dRdt>>) THEN TypeError
     ELSE <<dSdt, dLdt, dIdt, dRdt>>

----------------------------------------------------------------------------
(* The numerical libraries *)

\* Number of samples and end of the time grid: np.linspace(0, 160, 160).
GridEnd     == 160
SampleCount == 160

\* linspace without its endpoint: step (stop - start) / num.
linspace_open(start, stop, num) ==
  LET step == FDiv(FSub(FromInt(stop), FromInt(start)), FromInt(num))
  IN [i \in 1..num |-> FAdd(FMul(FromInt(i - 1), step), FromInt(start))]

\* np.linspace(start, stop, num): num points, step (stop - start) / (num - 1),
\* point i at start + i * step, the last point set to stop.
linspace(start, stop, num) ==
  LET step == FDiv(FSub(FromInt(stop), FromInt(start)), FromInt(num - 1))
  IN [i \in 1..num |->
        IF i = num THEN FromInt(stop)
        ELSE FAdd(FMul(FromInt(i - 1), step), FromInt(start))]

\* t = np.linspace(0, 160, 160)
TimeGrid == linspace(0, GridEnd, SampleCount)

\* odeint(func, y0, t, args) calls func(y, t, *args): the positional binding of
\* the args tuple to the parameters of the derivative function.
Call(variant, y, tm, args) ==
  IF variant = "SIRD"
  THEN sird_model(y, tm, args[1], args[2], args[3], args[4], args[5])
  ELSE slird_model(y, tm, args[1], args[2], args[3], args[4], args[5], args[6])

Two == FromInt(2)
Six == FromInt(6)

\* One step of the integrator from (tk, y) to tk1: the classical fixed-step
\* fourth-order Runge-Kutta method, four evaluations of the derivative.
\* A TypeError raised by the derivative function propagates.
\*   k1 = f(y, tk)                 k2 = f(y + h/2 * k1, tk + h/2)
\*   k3 = f(y + h/2 * k2, tk + h/2)  k4 = f(y + h * k3, tk1)
\*   y + h/6 * (k1 + 2 * k2 + 2 * k3 + k4)
OdeStep(variant, y, tk, tk1, args) ==
  Let2(FSub(tk1, tk), FDiv(FSub(tk1, tk), Two), LAMBDA h, h2 :
    Let1(Call(variant, y, tk, args), LAMBDA k1 :
      IF Raised(k1) THEN TypeError
      ELSE
        Let1(VAdd(y, VScale(h2, k1)), LAMBDA y2 :
        Let1(Call(variant, y2, FAdd(tk, h2), args), LAMBDA k2 :
        Let1(VAdd(y, VScale(h2, k2)), LAMBDA y3 :
        Let1(Call(variant, y3, FAdd(tk, h2), args), LAMBDA k3 :
        Let1(VAdd(y, VScale(h, k3)), LAMBDA y4 :
        Let1(Call(variant, y4, tk1, args), LAMBDA k4 :
          VAdd(y, VScale(FDiv(h, Six),
                         VAdd(VAdd(k1, VScale(Two, k2)),
                              VAdd(VScale(Two, k3), k4))))))))))))

----------------------------------------------------------------------------
(* The callback update_graph of either script *)

VARIABLES
  variant,    \* which script runs: "SIRD" (MODELO_SIRD.py) or "SLIRD"
  pc,         \* position of the callback: "idle", or "odeint" inside the solver
  request,    \* the Dash input values of the call being served
  t,          \* update_graph's local t, the time grid
  solution,   \* the rows odeint has produced so far
  fig,        \* what the last call returned (NoFig: nothing yet, or it raised)
  raised,     \* the last call ended with an exception
  lastEval,   \* observer: the derivative function's most recent call and result
  modelCalls, \* observer: derivative evaluations made for the current call
  history     \* observer: the completed calls, <<request, fig>>, when logged

vars == <<variant, pc, request, t, solution, fig, raised, lastEval, modelCalls,
          history>>

NoFig     == [title |-> "", data |-> <<>>]
NoEval    == [y |-> <<>>, t |-> Zero, d |-> <<>>]
NoRequest == [beta |-> None]

\* An initial condition kept across calls: the final state of the figure
\* returned last.
y0_carried(v) ==
  IF history = <<>>
  THEN IF v = "SIRD" THEN <<Dec(99, 100), Dec(1, 100), Zero>>
       ELSE <<Dec(99, 100), Zero, Dec(1, 100), Zero>>
  ELSE LET last == history[Len(history)][2].data
       IN [j \in DOMAIN last |-> last[j].y[Len(last[j].y)]]

\* S0, I0, R0 = 0.99, 0.01, 0.0 and S0, L0, I0, R0 = 0.99, 0.0, 0.01, 0.0
y0(v) ==
  IF v = "SIRD" THEN <<Dec(99, 100), Dec(1, 100), Zero>>
  ELSE <<Dec(99, 100), Zero, Dec(1, 100), Zero>>

\* The args tuple with rho and delta in each other's place.
OdeArgs_swapped(v, r) ==
  IF v = "SIRD" THEN <<r.beta, r.delta, r.rho, r.alpha, r.lambda_>>
  ELSE <<r.beta, r.delta, r.rho, r.alpha, r.lambda_, r.gamma>>

\* args=(beta, rho, delta, alpha, lambda_) and
\* args=(beta, rho, delta, alpha, lambda_, gamma)
OdeArgs(v, r) ==
  IF v = "SIRD" THEN <<r.beta, r.rho, r.delta, r.alpha, r.lambda_>>
  ELSE <<r.beta, r.rho, r.delta, r.alpha, r.lambda_, r.gamma>>

\* S, I, R = solution.T: column j of the solution
Column(sol, j) == [i \in 1..Len(sol) |-> sol[i][j]]

Trace(name, color, tt, ys) == [name |-> name, color |-> color, x |-> tt, y |-> ys]

\* The figure update_graph builds from t and the solution.
Figure(v, tt, sol) ==
  IF v = "SIRD"
  THEN [title |-> "Modelo SIRD",
        data  |-> << Trace("Susceptibles", "#1f77b4", tt, Column(sol, 1)),
                     Trace("Infectados",   "#ff7f0e", tt, Column(sol, 2)),
                     Trace("Recuperados",  "#2ca02c", tt, Column(sol, 3)) >>]
  ELSE [title |-> "Modelo SLIRD",
        data  |-> << Trace("Susceptibles", "#1f77b4", tt, Column(sol, 1)),
                     Trace("Latentes",     "#ff7f0e", tt, Column(sol, 2)),
                     Trace("Infectados",   "#d62728", tt, Column(sol, 3)),
                     Trace("Recuperados",  "#2ca02c", tt, Column(sol, 4)) >>]

\* update_graph is entered with the input values r: it sets y0 and t and calls
\* odeint, whose first row is y0.
Enter(r) ==
  /\ pc = "idle"
  /\ request' = r
  /\ pc' = "odeint"
  /\ t' = TimeGrid
  /\ solution' = <<y0(variant)>>
  /\ fig' = NoFig
  /\ raised' = FALSE
  /\ lastEval' = NoEval
  /\ modelCalls' = 0
  /\ UNCHANGED <<variant, history>>

\* odeint advances the solution to the next grid point, calling the derivative
\* function; an exception of the derivative function ends update_graph.
Step ==
  /\ pc = "odeint"
  /\ Len(solution) < Len(t)
  /\ LET k    == Len(solution)
         y    == solution[k]
         args == OdeArgs(variant, request)
         nxt  == OdeStep(variant, y, t[k], t[k + 1], args)
     IN /\ lastEval' = [y |-> y, t |-> t[k], d |-> Call(variant, y, t[k], args)]
        /\ IF Raised(nxt)
           THEN /\ pc' = "idle"
                /\ raised' = TRUE
                /\ solution' = <<>>
                /\ t' = <<>>
                /\ modelCalls' = modelCalls + 1
           ELSE /\ pc' = pc
                /\ raised' = raised
                /\ solution' = Append(solution, nxt)
                /\ t' = t
                /\ modelCalls' = modelCalls + 4
  /\ UNCHANGED <<variant, request, fig, history>>

\* odeint returns and update_graph returns the figure.
Return(logged) ==
  /\ pc = "odeint"
  /\ Len(solution) = Len(t)
  /\ fig' = Figure(variant, t, solution)
  /\ pc' = "idle"
  /\ solution' = <<>>
  /\ t' = <<>>
  /\ history' = IF logged THEN Append(history, <<request, fig'>>) ELSE history
  /\ UNCHANGED <<variant, request, raised, lastEval, modelCalls>>

----------------------------------------------------------------------------------------------------------------------------------------
(* The requests served *)

\* The input values a request may carry: the defaults of the layout (0.3, 0.1,
\* 0.05, 0.01, 0.01, 0.1), other numbers, an emptied field (None), and the
\* non-finite floats.
Requests(v) ==
  IF v = "SIRD"
  THEN [beta    : {Dec(3, 10), Dec(1, 10), Zero},
        rho     : {Dec(1, 10), Zero},
        delta   : {Dec(5, 100), Zero},
        alpha   : {Dec(1, 100), Zero, None, NaN},
        lambda_ : {Dec(1, 100), Zero}]
  ELSE [beta    : {Dec(3, 10), Zero},
        rho     : {Dec(1, 10), Zero},
        delta   : {Dec(5, 100), Zero},
        alpha   : {Dec(1, 100), Zero, None, NaN},
        lambda_ : {Dec(1, 100), Zero},
        gamma   : {Dec(1, 10), Inf}]

Init ==
  /\ variant \in {"SIRD", "SLIRD"}
  /\ pc = "idle"
  /\ request = NoRequest
  /\ t = <<>>
  /\ solution = <<>>
  /\ fig = NoFig
  /\ raised = FALSE
  /\ lastEval = NoEval
  /\ modelCalls = 0
  /\ history = <<>>

update_graph == \E r \in Requests(variant) : Enter(r)

Next == update_graph \/ Step \/ Return(FALSE)

Spec == Init /\ [][Next]_vars

----------------------------------------------------------------------------
(* Successive calls, logged: each script serves up to MaxCalls requests *)

MaxCalls == 3

LoggedRequests(v) ==
  {r \in Requests(v) :
     /\ r.beta = Dec(3, 10) /\ r.rho = Dec(1, 10) /\ r.delta = Dec(5, 100)
     /\ r.alpha \in {Dec(1, 100), Zero} /\ r.lambda_ = Dec(1, 100)
     /\ (v = "SLIRD" => r.gamma = Dec(1, 10))}

update_graph_logged ==
  /\ Len(history) < MaxCalls
  /\ \E r \in LoggedRequests(variant) : Enter(r)

NextCalls == update_graph_logged \/ Step \/ Return(TRUE)

SpecCalls == Init /\ [][NextCalls]_vars

----------------------------------------------------------------------------
(* The solver and the derivative functions on inputs drawn from bounded    *)
(* sets: odeint(model, y, t, args) from any state y, over the first        *)
(* MaxSteps steps of the grid.                                             *)

MaxSteps == 2

OdeStates(v) ==
  LET S == {Dec(99, 100), Dec(1, 2)}
      L == {Zero, Dec(1, 4)}
      I == {Zero, Dec(1, 100), Dec(3, 10)}
      R == {Zero, Dec(1, 5)}
  IN IF v = "SIRD" THEN S \X I \X R ELSE S \X L \X I \X R

OdeRequests(v) ==
  IF v = "SIRD"
  THEN [beta    : {Dec(3, 10), Zero},
        rho     : {Dec(1, 10), Zero},
        delta   : {Dec(5, 100), Zero},
        alpha   : {Dec(1, 100), Zero},
        lambda_ : {Dec(1, 100), Zero}]
  ELSE [beta    : {Dec(3, 10), Zero},
        rho     : {Dec(1, 10), Zero},
        delta   : {Dec(5, 100), Zero},
        alpha   : {Dec(1, 100), Zero},
        lambda_ : {Dec(1, 100), Zero},
        gamma   : {Dec(1, 10), Dec(1, 2)}]

InitOde ==
  /\ variant \in {"SIRD", "SLIRD"}
  /\ pc = "odeint"
  /\ request \in OdeRequests(variant)
  /\ t = SubSeq(TimeGrid, 1, MaxSteps + 1)
  /\ \E y \in OdeStates(variant) : solution = <<y>>
  /\ fig = NoFig
  /\ raised = FALSE
  /\ lastEval = NoEval
  /\ modelCalls = 0
  /\ history = <<>>

NextOde == Step \/ Return(FALSE)

SpecOde == InitOde /\ [][NextOde]_vars

----------------------------------------------------------------------------
(* Vocabulary of the properties *)

\* Every input value of the request is a finite number.
Valid(r) == \A f \in DOMAIN r : r[f].c = "fin"
Invalid(r) == r # NoRequest /\ ~Valid(r)

\* The call has returned a figure.
Completed == pc = "idle" /\ fig # NoFig

\* The row odeint produced last, and the rate laws as the specification
\* writes them, on a state y and the named parameters of a request r.
LastRow == solution[Len(solution)]

SirdLaw(y, r) ==
  << FAdd(FSub(r.alpha, FMul(FMul(r.beta, y[1]), y[2])), FMul(r.lambda_, y[3])),
     FSub(FSub(FMul(FMul(r.beta, y[1]), y[2]), FMul(r.delta, y[2])),
          FMul(r.rho, y[2])),
     FSub(FMul(r.rho, y[2]), FMul(r.lambda_, y[3])) >>

SlirdLaw(y, r) ==
  << FAdd(FSub(r.alpha, FMul(FMul(r.beta, y[1]), y[3])), FMul(r.lambda_, y[4])),
     FSub(FMul(FMul(r.beta, y[1]), y[3]), FMul(r.gamma, y[2])),
     FSub(FSub(FMul(r.gamma, y[2]), FMul(r.delta, y[3])), FMul(r.rho, y[3])),
     FSub(FMul(r.rho, y[3]), FMul(r.lambda_, y[4])) >>

\* v[1] + v[2] + ... as Python adds them, left to right.
RECURSIVE Total(_)
Total(v) ==
  IF Len(v) = 1 THEN v[1] ELSE FAdd(Total(SubSeq(v, 1, Len(v) - 1)), v[Len(v)])

\* Index of the infected compartment in the state vector.
Infected(v) == IF v = "SIRD" THEN 2 ELSE 3

\* The unit roundoff 2^-MantBits, and the largest magnitude in a set of floats.
Eps == Round(1, -MantBits)
Largest(fs) == CHOOSE a \in fs : \A b \in fs : FLe(FAbs(b), FAbs(a))

\* a and b differ by at most 64 units of roundoff of the largest of the terms.
Close(a, b, terms) ==
  FLe(FAbs(FSub(a, b)), FMul(FMul(FromInt(64), Eps), FAbs(Largest(terms))))

\* The products a rate law is built from, at state y under request r.
Terms(v, y, r) ==
  IF v = "SIRD"
  THEN {r.alpha, FMul(FMul(r.beta, y[1]), y[2]), FMul(r.lambda_, y[3]),
        FMul(r.delta, y[2]), FMul(r.rho, y[2])}
  ELSE {r.alpha, FMul(FMul(r.beta, y[1]), y[3]), FMul(r.lambda_, y[4]),
        FMul(r.delta, y[3]), FMul(r.rho, y[3]), FMul(r.gamma, y[2])}

----------------------------------------------------------------------------
(* Properties *)

\* C1: in MODELO_SIRD.py, whenever odeint evaluates the derivative for a
\* request of finite values (beta, rho, delta, alpha, lambda), at any state
\* (S, I, R) and any time t, the result is exactly
\* [alpha - beta*S*I + lambda*R, beta*S*I - delta*I - rho*I, rho*I - lambda*R]
\* in the named parameters of the request: sird_model computes the law and
\* update_graph hands the parameters over in the order sird_model expects.
C1_SirdLaw ==
  (variant = "SIRD" /\ lastEval # NoEval /\ Valid(request))
    => lastEval.d = SirdLaw(lastEval.y, request)

\* The law was evaluated away from t = 0 on a request whose five values all
\* differ, with every component of the result non-zero.
C1_Witness ==
  /\ variant = "SIRD" /\ lastEval # NoEval /\ Valid(request)
  /\ Cardinality({request[f] : f \in DOMAIN request}) = 5
  /\ lastEval.t # Zero
  /\ \A i \in 1..3 : lastEval.d[i].c = "fin" /\ lastEval.d[i].m # 0

\* C2: slird_model returns exactly [alpha - beta*S*I + lambda*R,
\* beta*S*I - gamma*L, gamma*L - delta*I - rho*I, rho*I - lambda*R] in the order
\* (dS, dL, dI, dR), a vector as long as the state, whatever the time t.
C2_SlirdLaw ==
  (variant = "SLIRD" /\ lastEval # NoEval)
    => /\ lastEval.d = SlirdLaw(lastEval.y, request)
       /\ Len(lastEval.d) = Len(lastEval.y)

\* The law was evaluated on a state and a request with all four components of
\* the result non-zero and dL different from dI.
C2_Witness ==
  /\ variant = "SLIRD" /\ lastEval # NoEval
  /\ \A i \in 1..4 : lastEval.d[i].m # 0
  /\ lastEval.d[2] # lastEval.d[3]
  /\ lastEval.t # Zero

\* The relative tolerance of the mass balance: 1e-3 of the sum at t = 0.
MassBalanced(row, first) ==
  FLe(FAbs(FSub(Total(row), Total(first))),
      FMul(Dec(1, 1000), FAbs(Total(first))))

\* C3 as stated: with alpha = 0 and lambda = 0, whatever beta, rho, delta (and
\* gamma), the sum of the compartments at every point of the trajectory is
\* within 1e-3 (relative) of the sum at t = 0.
C3_MassBalance_AnyDelta ==
  (pc = "odeint" /\ Valid(request)
     /\ request.alpha = Zero /\ request.lambda_ = Zero)
    => MassBalanced(LastRow, solution[1])

\* C3, amended: with alpha = 0, lambda = 0 and delta = 0 (no mortality), the
\* sum of the compartments at every point of the trajectory is within 1e-3
\* (relative) of the sum at t = 0.
C3_MassBalance ==
  (pc = "odeint" /\ Valid(request)
     /\ request.alpha = Zero /\ request.lambda_ = Zero /\ request.delta = Zero)
    => MassBalanced(LastRow, solution[1])

\* A closed run without mortality reached the end of the grid with more than a
\* third of the population moved out of S.
C3_Witness ==
  /\ pc = "odeint" /\ Valid(request)
  /\ request.alpha = Zero /\ request.lambda_ = Zero /\ request.delta = Zero
  /\ Len(solution) = SampleCount
  /\ FLt(LastRow[1], Dec(2, 3))

\* C4 as stated: for a request with a missing (None), NaN or infinite input
\* value, the integrator and the derivative function are never invoked and no
\* trajectory is returned.
C4_FailFast ==
  Invalid(request) => (pc # "odeint" /\ modelCalls = 0 /\ fig = NoFig)

\* C5: a trajectory that starts with I = 0 (and L = 0 in SLIRD) has I = 0 (and
\* L = 0) at every point, for every parameter set and number of steps, and
\* the derivative function returns dI = 0 (and dL = 0) at such a state.
C5_DiseaseFree ==
  LET i == Infected(variant)
      free(y) == y[i] = Zero /\ (variant = "SLIRD" => y[2] = Zero)
  IN (pc = "odeint" /\ free(solution[1]))
       => /\ \A k \in DOMAIN solution : free(solution[k])
          /\ lastEval # NoEval => free(lastEval.d)

\* A disease-free start was integrated to the last step with contact and
\* replenishment switched on, and S has moved.
C5_Witness ==
  /\ pc = "odeint" /\ Len(solution) = MaxSteps + 1
  /\ solution[1][Infected(variant)] = Zero
  /\ variant = "SLIRD" /\ solution[1][2] = Zero
  /\ request.beta # Zero /\ request.alpha # Zero
  /\ LastRow[1] # solution[1][1]

\* C6: for a request of finite values the returned figure has, per
\* compartment, exactly 160 values over a time grid of 160 strictly increasing
\* points from 0 to 160, and the first state is the fixed initial condition
\* (SIRD: 0.99, 0.01, 0.0; SLIRD: 0.99, 0.0, 0.01, 0.0).
C6_Shape ==
  (Completed /\ Valid(request))
    => /\ Len(fig.data) = IF variant = "SIRD" THEN 3 ELSE 4
       /\ \A j \in DOMAIN fig.data :
            /\ Len(fig.data[j].y) = SampleCount
            /\ Len(fig.data[j].x) = SampleCount
            /\ fig.data[j].x[1] = Zero
            /\ fig.data[j].x[SampleCount] = FromInt(GridEnd)
            /\ \A i \in 1..(SampleCount - 1) :
                 FLt(fig.data[j].x[i], fig.data[j].x[i + 1])
       /\ [j \in DOMAIN fig.data |-> fig.data[j].y[1]]
            = IF variant = "SIRD"
              THEN <<Dec(99, 100), Dec(1, 100), Zero>>
              ELSE <<Dec(99, 100), Zero, Dec(1, 100), Zero>>

\* A figure was returned for the default inputs, and its curves moved.
C6_Witness ==
  /\ Completed /\ Valid(request)
  /\ request.beta = Dec(3, 10) /\ request.alpha = Dec(1, 100)
  /\ \A j \in DOMAIN fig.data : fig.data[j].y[SampleCount] # fig.data[j].y[1]

\* C7: two logged calls with the same inputs returned the same figure,
\* whatever calls ran before or between them.
C7_Deterministic ==
  \A i, j \in DOMAIN history :
    history[i][1] = history[j][1] => history[i][2] = history[j][2]

\* Three calls were served: the first and third with the same inputs, the
\* second with other inputs and another figure.
C7_Witness ==
  /\ Len(history) = 3
  /\ history[1][1] = history[3][1]
  /\ history[2][1] # history[1][1]
  /\ history[2][2] # history[1][2]

\* beta*S <= rho + delta and I >= 0 at every point of the returned SIRD
\* trajectory; the same with beta*S < rho + delta.
Damped(strict) ==
  LET S == fig.data[1].y
      I == fig.data[2].y
      lim == FAdd(request.rho, request.delta)
  IN \A k \in 1..SampleCount :
       /\ FLe(Zero, I[k])
       /\ IF strict THEN FLt(FMul(request.beta, S[k]), lim)
                    ELSE FLe(FMul(request.beta, S[k]), lim)

NeverIncreases ==
  LET I == fig.data[2].y
  IN \A k \in 1..(SampleCount - 1) : FLe(I[k + 1], I[k])

\* C8 as stated: in SIRD, if beta*S <= rho + delta and I >= 0 along the
\* trajectory, the infected compartment never increases from one point to the
\* next and approaches 0: it ends below where it started.
C8_Decay_NonStrict ==
  (variant = "SIRD" /\ Completed /\ Valid(request) /\ Damped(FALSE))
    => /\ NeverIncreases
       /\ FLt(fig.data[2].y[SampleCount], fig.data[2].y[1])

\* C8, amended: in SIRD, if beta*S <= rho + delta and I >= 0 along the
\* trajectory, the infected compartment never increases from one point to the
\* next; if beta*S < rho + delta along the trajectory it ends below where it
\* started.  (With beta*S = rho + delta it stays where it is.)
C8_Decay ==
  (variant = "SIRD" /\ Completed /\ Valid(request))
    => /\ Damped(FALSE) => NeverIncreases
       /\ Damped(TRUE) => /\ NeverIncreases
                          /\ FLt(fig.data[2].y[SampleCount], fig.data[2].y[1])

\* A damped run with contact switched on (beta > 0) came back with the
\* infected compartment decayed below a tenth of its initial value.
C8_Witness ==
  /\ variant = "SIRD" /\ Completed /\ Valid(request)
  /\ request.beta # Zero
  /\ Damped(TRUE)
  /\ FLt(FMul(FromInt(10), fig.data[2].y[SampleCount]), fig.data[2].y[1])

\* C9 as stated: the components the derivative function returns sum to
\* alpha - delta*I.
C9_NetFlow_Exact ==
  lastEval # NoEval
    => Total(lastEval.d)
         = FSub(request.alpha, FMul(request.delta, lastEval.y[Infected(variant)]))

\* C9, amended: the components the derivative function returns sum to
\* alpha - delta*I up to floating point rounding: the difference is at most 64
\* units of roundoff of the largest term of the law (the beta, rho, lambda and
\* gamma terms cancel pairwise, the roundings of the additions do not).
C9_NetFlow ==
  lastEval # NoEval
    => Close(Total(lastEval.d),
             FSub(request.alpha, FMul(request.delta, lastEval.y[Infected(variant)])),
             Terms(variant, lastEval.y, request))

\* The law was evaluated with every parameter and compartment non-zero, and
\* the sum of its components is not zero.
C9_Witness ==
  /\ lastEval # NoEval
  /\ \A f \in DOMAIN request : request[f] # Zero
  /\ \A i \in DOMAIN lastEval.y : lastEval.y[i] # Zero
  /\ Total(lastEval.d) # Zero

\* What sird_model returns at the S, I, R of an SLIRD state, under the five
\* parameters the two laws share.
SirdAt(y, tm, r) ==
  sird_model(<<y[1], y[3], y[4]>>, tm, r.beta, r.rho, r.delta, r.alpha, r.lambda_)

\* C10 as stated: at the same S, I, R and shared parameters, slird_model and
\* sird_model return the same dS and the same dR, and the SLIRD components
\* dL + dI sum to the SIRD component dI.
C10_Correspondence_Exact ==
  (variant = "SLIRD" /\ lastEval # NoEval)
    => LET d == lastEval.d
           s == SirdAt(lastEval.y, lastEval.t, request)
       IN d[1] = s[1] /\ d[4] = s[3] /\ FAdd(d[2], d[3]) = s[2]

\* C10, amended: at the same S, I, R and shared parameters, slird_model and
\* sird_model return the same dS and the same dR, and the SLIRD components
\* dL + dI sum to the SIRD component dI up to floating point rounding (at most
\* 64 units of roundoff of the largest term of the law).
C10_Correspondence ==
  (variant = "SLIRD" /\ lastEval # NoEval)
    => LET d == lastEval.d
           s == SirdAt(lastEval.y, lastEval.t, request)
       IN /\ d[1] = s[1]
          /\ d[4] = s[3]
          /\ Close(FAdd(d[2], d[3]), s[2], Terms(variant, lastEval.y, request))

\* The SLIRD law was evaluated with a latent population and every rate
\* non-zero, dL and dI both non-zero.
C10_Witness ==
  /\ variant = "SLIRD" /\ lastEval # NoEval
  /\ \A f \in DOMAIN request : request[f] # Zero
  /\ \A i \in DOMAIN lastEval.y : lastEval.y[i] # Zero
  /\ lastEval.d[2] # Zero /\ lastEval.d[3] # Zero
====
